---- MODULE Spec2Model ----
(***************************************************************************)
(* A model of excel_to_ralf.py: load_excel (schema check and forward fill), *)
(* generate_ralf (grouping, field decoding, text emission) and main (write  *)
(* of the returned text).                                                   *)
(*                                                                          *)
(* A Python str is a sequence of one-character strings.  A cell of the      *)
(* DataFrame is a str or NaN.  A piece of emitted text is a sequence of     *)
(* chunks; the literal parts of an f-string are kept as one chunk each.     *)
(***************************************************************************)
EXTENDS Integers, Sequences, FiniteSets, TLC

(* ------------------------------------------------------------------------ *)
(* Cells and strings                                                        *)
(* ------------------------------------------------------------------------ *)

\* The missing value pandas puts in an empty cell.
NaN == <<"NaN">>

\* pd.isna on a scalar cell.
IsNa(c) == c = NaN

\* str(x): a str is itself, NaN renders as "nan".
Str(c) == IF IsNa(c) THEN <<"n", "a", "n">> ELSE c

\* sanitize: NaN becomes the empty string.
sanitize(c) == IF IsNa(c) THEN <<>> ELSE Str(c)

IsSpace(ch) == ch \in {" ", "\t", "\n"}

RECURSIVE LStrip(_)
LStrip(s) == IF s # <<>> /\ IsSpace(Head(s)) THEN LStrip(Tail(s)) ELSE s

RECURSIVE RStrip(_)
RStrip(s) ==
    IF s # <<>> /\ IsSpace(s[Len(s)]) THEN RStrip(SubSeq(s, 1, Len(s) - 1)) ELSE s

\* str.strip()
Strip(s) == RStrip(LStrip(s))

UpperCase == <<"A", "B", "C", "D", "E", "F", "G", "H", "I", "J", "K", "L", "M",
               "N", "O", "P", "Q", "R", "S", "T", "U", "V", "W", "X", "Y", "Z">>
LowerCase == <<"a", "b", "c", "d", "e", "f", "g", "h", "i", "j", "k", "l", "m",
               "n", "o", "p", "q", "r", "s", "t", "u", "v", "w", "x", "y", "z">>

LowerChar(ch) ==
    IF \E k \in 1..Len(UpperCase) : UpperCase[k] = ch
    THEN LowerCase[CHOOSE k \in 1..Len(UpperCase) : UpperCase[k] = ch]
    ELSE ch

\* str.lower()
Lower(s) == [k \in 1..Len(s) |-> LowerChar(s[k])]

(* ------------------------------------------------------------------------ *)
(* Integer parsing and formatting                                           *)
(* ------------------------------------------------------------------------ *)

\* The outcome of a conversion that may raise: ok = FALSE is ValueError.
Fail == [ok |-> FALSE, v |-> 0]
Ok(n) == [ok |-> TRUE, v |-> n]

HexDigits == <<"0", "1", "2", "3", "4", "5", "6", "7", "8", "9",
               "A", "B", "C", "D", "E", "F">>

\* The value of a digit character, -1 when it is no digit of any base.
DigitVal(ch) ==
    LET u == IF \E k \in 1..Len(LowerCase) : LowerCase[k] = ch
             THEN UpperCase[CHOOSE k \in 1..Len(LowerCase) : LowerCase[k] = ch]
             ELSE ch
    IN IF \E k \in 1..16 : HexDigits[k] = u
       THEN (CHOOSE k \in 1..16 : HexDigits[k] = u) - 1
       ELSE -1

IsDigits(s, base) ==
    /\ s # <<>>
    /\ \A k \in 1..Len(s) : DigitVal(s[k]) >= 0 /\ DigitVal(s[k]) < base

RECURSIVE DigitsValue(_, _)
DigitsValue(s, base) ==
    IF s = <<>> THEN 0
    ELSE DigitsValue(SubSeq(s, 1, Len(s) - 1), base) * base + DigitVal(s[Len(s)])

\* A sign followed by the rest of the literal.
SignOf(s) == IF s # <<>> /\ Head(s) = "-" THEN -1 ELSE 1
Unsigned(s) == IF s # <<>> /\ Head(s) \in {"-", "+"} THEN Tail(s) ELSE s

\* int(s): base 10, surrounding whitespace and a sign allowed.
IntBase10(s) ==
    LET t == Strip(s)
        d == Unsigned(t)
    IN IF IsDigits(d, 10) THEN Ok(SignOf(t) * DigitsValue(d, 10)) ELSE Fail

\* int(s, 0): the base is read from the prefix; a decimal literal with a
\* leading zero is accepted only when it is all zeros.
IntBase0(s) ==
    LET t == Strip(s)
        d == Unsigned(t)
        p == IF Len(d) >= 2 /\ d[1] = "0" THEN LowerChar(d[2]) ELSE ""
        base == CASE p = "x" -> 16 [] p = "b" -> 2 [] p = "o" -> 8 [] OTHER -> 10
        body == IF base = 10 THEN d ELSE SubSeq(d, 3, Len(d))
    IN IF ~IsDigits(body, base) THEN Fail
       ELSE IF base = 10 /\ Len(body) > 1 /\ body[1] = "0"
                 /\ \E k \in 1..Len(body) : body[k] # "0" THEN Fail
       ELSE Ok(SignOf(t) * DigitsValue(body, base))

RECURSIVE NatDigits(_, _)
NatDigits(n, base) ==
    IF n < base THEN <<HexDigits[n + 1]>>
    ELSE NatDigits(n \div base, base) \o <<HexDigits[(n % base) + 1]>>

\* format(n, "X"): upper-case hexadecimal, a minus sign for a negative n.
FormatHex(n) == IF n < 0 THEN <<"-">> \o NatDigits(-n, 16) ELSE NatDigits(n, 16)

\* The decimal rendering of an int inside an f-string.
FormatDec(n) == IF n < 0 THEN <<"-">> \o NatDigits(-n, 10) ELSE NatDigits(n, 10)

RECURSIVE Pow2(_)
Pow2(k) == IF k = 0 THEN 1 ELSE 2 * Pow2(k - 1)

\* a & b for a, b >= 0, bit by bit.
RECURSIVE AndNat(_, _)
AndNat(a, b) ==
    IF a = 0 \/ b = 0 THEN 0
    ELSE 2 * AndNat(a \div 2, b \div 2) + (IF a % 2 = 1 /\ b % 2 = 1 THEN 1 ELSE 0)

\* a & m for m >= 0 and any a: a negative a is the complement of -a - 1.
BitAnd(a, m) == IF a >= 0 THEN AndNat(a, m) ELSE m - AndNat(-a - 1, m)

(* ------------------------------------------------------------------------ *)
(* Decoders                                                                 *)
(* ------------------------------------------------------------------------ *)

\* The position of the first ":" of s, 0 when there is none.
FirstColon(s) ==
    IF \E k \in 1..Len(s) : s[k] = ":"
    THEN CHOOSE k \in 1..Len(s) : s[k] = ":" /\ \A j \in 1..(k - 1) : s[j] # ":"
    ELSE 0

NoRange == [ok |-> FALSE, hi |-> 0, lo |-> 0]

\* parse_bit_range: ok = FALSE is the ValueError the caller catches.
parse_bit_range(bit_str) ==
    IF IsNa(bit_str) THEN NoRange
    ELSE LET s == Strip(Str(bit_str))
             c == FirstColon(s)
             hi == IntBase10(SubSeq(s, 1, c - 1))
             lo == IntBase10(SubSeq(s, c + 1, Len(s)))
             b == IntBase10(s)
         IN IF s = <<>> THEN NoRange
            ELSE IF c > 0
                 THEN IF hi.ok /\ lo.ok THEN [ok |-> TRUE, hi |-> hi.v, lo |-> lo.v]
                      ELSE NoRange
                 ELSE IF b.ok THEN [ok |-> TRUE, hi |-> b.v, lo |-> b.v] ELSE NoRange

\* parse_reset_value: ok = FALSE is the None it returns.
parse_reset_value(rv_str) ==
    LET s == Strip(Str(rv_str))
    IN IF s = <<>> THEN Fail ELSE IntBase0(s)

(* ------------------------------------------------------------------------ *)
(* load_excel                                                               *)
(* ------------------------------------------------------------------------ *)

required == <<"BlockName", "RegName", "RegOffset", "Bit", "FieldName",
              "Access", "ResetValue", "Description">>

Range(f) == {f[k] : k \in DOMAIN f}

\* The required columns the table lacks.
missing(columns) == Range(required) \ columns

FillColumns == {"BlockName", "RegName", "RegOffset", "Hierarchy"}

\* Series.ffill over one column: a NaN takes the last value seen above it.
RECURSIVE ffill(_, _)
ffill(rows, col) ==
    IF rows = <<>> THEN <<>>
    ELSE LET n == Len(rows)
             above == ffill(SubSeq(rows, 1, n - 1), col)
             last == rows[n]
             v == IF IsNa(last[col]) /\ n > 1 THEN above[n - 1][col] ELSE last[col]
         IN Append(above, [last EXCEPT ![col] = v])

\* The fill loop of load_excel over the columns that are present.
RECURSIVE FillAll(_, _)
FillAll(rows, cols) ==
    IF cols = {} THEN rows
    ELSE LET c == CHOOSE x \in cols : TRUE
         IN FillAll(ffill(rows, c), cols \ {c})

\* load_excel as it would be with df.ffill() over the whole frame.
load_excel_fill_every_column(table) ==
    [columns |-> table.columns, rows |-> FillAll(table.rows, table.columns)]

load_excel(table) ==
    [columns |-> table.columns,
     rows |-> FillAll(table.rows, FillColumns \cap table.columns)]

(* ------------------------------------------------------------------------ *)
(* generate_ralf                                                            *)
(* ------------------------------------------------------------------------ *)

\* The --bytes default handed to generate_ralf.
bytes_per_word == 4

\* An emitted line: its text, and the number of the DataFrame row whose
\* iteration appended it (0 for the lines of a block or of a register).
Line(text, r) == [text |-> text, row |-> r]

\* The keys of a groupby(sort=False) in first-seen order; a key that holds a
\* NaN is dropped with its rows (dropna, the default).
RECURSIVE FirstSeen(_)
FirstSeen(keys) ==
    IF keys = <<>> THEN <<>>
    ELSE LET n == Len(keys)
             before == FirstSeen(SubSeq(keys, 1, n - 1))
             k == keys[n]
         IN IF (\E j \in 1..Len(k) : IsNa(k[j])) \/ k \in Range(before)
            THEN before ELSE Append(before, k)

\* The members of idxs (row numbers, ascending) whose key under by is k.
RECURSIVE Members(_, _, _, _)
Members(rows, idxs, by, k) ==
    IF idxs = <<>> THEN <<>>
    ELSE LET rest == Members(rows, Tail(idxs), by, k)
             r == rows[Head(idxs)]
         IN IF [j \in 1..Len(by) |-> r[by[j]]] = k THEN <<Head(idxs)>> \o rest
            ELSE rest

\* The group keys of the rows idxs under the columns by.
GroupKeys(rows, idxs, by) ==
    FirstSeen([n \in 1..Len(idxs) |-> [j \in 1..Len(by) |-> rows[idxs[n]][by[j]]]])

\* The access token of a row (lines 164-168).
AccessOf(cell) ==
    LET t == Strip(Str(cell))
        faccess == Lower(IF t = <<>> THEN <<"r", "w">> ELSE t)
    IN IF faccess = <<"r">> THEN <<"r", "o">> ELSE faccess

\* ResetOf as it would be without the mask: the reset value is written whole.
ResetOf_unmasked(cell, width) ==
    LET rv == parse_reset_value(cell)
    IN IF ~rv.ok THEN [kind |-> "none", text |-> <<>>]
       ELSE IF width < 0 THEN [kind |-> "raise", text |-> <<>>]
       ELSE [kind |-> "some",
             text |-> FormatDec(width) \o <<"'h">> \o FormatHex(rv.v)]

\* The reset declaration of a field (lines 171-177): kind "none" when the
\* reset value is None, "raise" when the shift count is negative.
ResetOf(cell, width) ==
    LET rv == parse_reset_value(cell)
    IN IF ~rv.ok THEN [kind |-> "none", text |-> <<>>]
       ELSE IF width < 0 THEN [kind |-> "raise", text |-> <<>>]
       ELSE LET mask == Pow2(width) - 1
                rv_field == BitAnd(rv.v, mask)
            IN [kind |-> "some",
                text |-> FormatDec(width) \o <<"'h">> \o FormatHex(rv_field)]

\* The display name of a field (lines 182-185).
FieldDisplayName(row, columns) ==
    LET base_fname == sanitize(row["FieldName"])
        h_val == IF "Hierarchy" \in columns THEN sanitize(row["Hierarchy"]) ELSE <<>>
    IN IF h_val # <<>> THEN base_fname \o <<" (">> \o h_val \o <<")">>
       ELSE base_fname

\* One iteration of the row loop (lines 144-192) on row number r: the lines
\* it appends, or the ValueError that leaves generate_ralf.
FieldOfRow(row, r, columns) ==
    LET base_fname == sanitize(row["FieldName"])
        rng == parse_bit_range(row["Bit"])
        width == rng.hi - rng.lo + 1
        lsb == rng.lo
        reset == ResetOf(row["ResetValue"], width)
    IN IF base_fname = <<>> THEN [raised |-> FALSE, lines |-> <<>>]
       ELSE IF Lower(Strip(base_fname)) = <<"r", "e", "s", "e", "r", "v", "e", "d">>
            THEN [raised |-> FALSE, lines |-> <<>>]
       ELSE IF ~rng.ok THEN [raised |-> FALSE, lines |-> <<>>]
       ELSE IF reset.kind = "raise" THEN [raised |-> TRUE, lines |-> <<>>]
       ELSE [raised |-> FALSE,
             lines |->
                <<Line(<<"        field ">> \o FieldDisplayName(row, columns)
                         \o <<" @">> \o FormatDec(lsb) \o <<" {">>, r),
                  Line(<<"           bits ">> \o FormatDec(width) \o <<";">>, r),
                  Line(<<"           access ">> \o AccessOf(row["Access"]) \o <<";">>, r)>>
                \o (IF reset.kind = "some"
                    THEN <<Line(<<"           reset ">> \o reset.text \o <<";">>, r)>>
                    ELSE <<>>)
                \o <<Line(<<"        }">>, r)>>]

\* Two pieces of the emission in sequence; a raise in either is a raise.
Then(a, b) == [raised |-> a.raised \/ b.raised, lines |-> a.lines \o b.lines]

Emit(ls) == [raised |-> FALSE, lines |-> ls]

\* The row loop of one register.
RECURSIVE FieldsOf(_, _, _)
FieldsOf(rows, idxs, columns) ==
    IF idxs = <<>> THEN Emit(<<>>)
    ELSE Then(FieldOfRow(rows[Head(idxs)], Head(idxs), columns),
              FieldsOf(rows, Tail(idxs), columns))

\* The offset of a register header (lines 130-138).
OffsetHex(offset) ==
    LET parsed == IntBase0(Strip(Str(sanitize(offset))))
        offset_int == IF parsed.ok THEN parsed.v ELSE 0
    IN FormatHex(offset_int)

\* One register (lines 130-195): key is <<RegName, RegOffset>>.
RegisterOf(rows, idxs, key, columns) ==
    Then(Emit(<<Line(<<"    register ">> \o sanitize(key[1]) \o <<" @'h">>
                       \o OffsetHex(key[2]) \o <<" {">>, 0)>>),
         Then(FieldsOf(rows, Members(rows, idxs, <<"RegName", "RegOffset">>, key), columns),
              Emit(<<Line(<<"    }">>, 0), Line(<<>>, 0)>>)))

RECURSIVE RegistersOf(_, _, _, _)
RegistersOf(rows, idxs, keys, columns) ==
    IF keys = <<>> THEN Emit(<<>>)
    ELSE Then(RegisterOf(rows, idxs, Head(keys), columns),
              RegistersOf(rows, idxs, Tail(keys), columns))

\* The name a block is emitted under (line 106).
BlockNameOf(key) == IF sanitize(key) = <<>> THEN <<"T", "O", "P">> ELSE sanitize(key)

\* BlockOf as it would be with the blank line put before every block, the
\* first one included.
BlockOf_blank_before_every_block(rows, key, first_block, columns) ==
    LET idxs == Members(rows, [n \in 1..Len(rows) |-> n], <<"BlockName">>, key)
    IN Then(Emit(<<Line(<<>>, 0),
                   Line(<<"block ">> \o BlockNameOf(key[1]) \o <<" {">>, 0),
                   Line(<<"  bytes ">> \o FormatDec(bytes_per_word) \o <<";">>, 0)>>),
            Then(RegistersOf(rows, idxs,
                             GroupKeys(rows, idxs, <<"RegName", "RegOffset">>), columns),
                 Emit(<<Line(<<"}">>, 0)>>)))

\* One block (lines 106-197): key is <<BlockName>>.
BlockOf(rows, key, first_block, columns) ==
    LET idxs == Members(rows, [n \in 1..Len(rows) |-> n], <<"BlockName">>, key)
    IN Then(Emit((IF first_block THEN <<>> ELSE <<Line(<<>>, 0)>>)
                 \o <<Line(<<"block ">> \o BlockNameOf(key[1]) \o <<" {">>, 0),
                      Line(<<"  bytes ">> \o FormatDec(bytes_per_word) \o <<";">>, 0)>>),
            Then(RegistersOf(rows, idxs,
                             GroupKeys(rows, idxs, <<"RegName", "RegOffset">>), columns),
                 Emit(<<Line(<<"}">>, 0)>>)))

RECURSIVE BlocksOf(_, _, _, _)
BlocksOf(rows, keys, first_block, columns) ==
    IF keys = <<>> THEN Emit(<<>>)
    ELSE Then(BlockOf(rows, Head(keys), first_block, columns),
              BlocksOf(rows, Tail(keys), FALSE, columns))

\* generate_ralf up to the join: the list lines, or the error raised.
generate_ralf(frame) ==
    BlocksOf(frame.rows,
             GroupKeys(frame.rows, [n \in 1..Len(frame.rows) |-> n], <<"BlockName">>),
             TRUE, frame.columns)

\* "\n".join(lines)
RECURSIVE Join(_)
Join(texts) ==
    IF texts = <<>> THEN <<>>
    ELSE IF Len(texts) = 1 THEN texts[1]
    ELSE texts[1] \o <<"\n">> \o Join(Tail(texts))

(* ------------------------------------------------------------------------ *)
(* Input tables                                                             *)
(* ------------------------------------------------------------------------ *)

\* The longest table of the grouping family and of the fill family, and the
\* number of well-formed rows that may follow the row under test.
MaxRows == 3
MaxFillRows == 3
MaxTrail == 1

\* Sample cells with the value Python gives them: int(s.strip(), 0) for the
\* reset values and offsets, parse_bit_range for the bit ranges.
ResetSamples ==
    { [cell |-> NaN, ok |-> FALSE, v |-> 0],
      [cell |-> <<>>, ok |-> FALSE, v |-> 0],
      [cell |-> <<" ">>, ok |-> FALSE, v |-> 0],
      [cell |-> <<"z", "z">>, ok |-> FALSE, v |-> 0],
      [cell |-> <<"0", "1", "7">>, ok |-> FALSE, v |-> 0],
      [cell |-> <<"1">>, ok |-> TRUE, v |-> 1],
      [cell |-> <<"0", "x", "1", "F">>, ok |-> TRUE, v |-> 31],
      [cell |-> <<"0", "x", "1", "0", "0">>, ok |-> TRUE, v |-> 256],
      [cell |-> <<" ", "-", "1">>, ok |-> TRUE, v |-> -1],
      [cell |-> <<"0", "b", "1", "0", "1">>, ok |-> TRUE, v |-> 5],
      [cell |-> <<"0", "o", "1", "7">>, ok |-> TRUE, v |-> 15] }

BitSamples ==
    { [cell |-> NaN, ok |-> FALSE, hi |-> 0, lo |-> 0],
      [cell |-> <<>>, ok |-> FALSE, hi |-> 0, lo |-> 0],
      [cell |-> <<"a", "b", "c">>, ok |-> FALSE, hi |-> 0, lo |-> 0],
      [cell |-> <<"7", ":", "0", ":", "1">>, ok |-> FALSE, hi |-> 0, lo |-> 0],
      [cell |-> <<"0", "x", "7">>, ok |-> FALSE, hi |-> 0, lo |-> 0],
      [cell |-> <<"0">>, ok |-> TRUE, hi |-> 0, lo |-> 0],
      [cell |-> <<"7", ":", "0">>, ok |-> TRUE, hi |-> 7, lo |-> 0],
      [cell |-> <<"1", "1", ":", "8">>, ok |-> TRUE, hi |-> 11, lo |-> 8],
      [cell |-> <<" ", "3", " ">>, ok |-> TRUE, hi |-> 3, lo |-> 3],
      [cell |-> <<"0", ":", "1">>, ok |-> TRUE, hi |-> 0, lo |-> 1],
      [cell |-> <<"0", ":", "7">>, ok |-> TRUE, hi |-> 0, lo |-> 7] }

OffsetSamples ==
    { [cell |-> <<"0", "x", "1", "0">>, ok |-> TRUE, v |-> 16],
      [cell |-> <<"z", "z">>, ok |-> FALSE, v |-> 0],
      [cell |-> <<"-", "0", "x", "1", "0">>, ok |-> TRUE, v |-> -16] }

NameCells ==
    { NaN, <<>>, <<" ", " ">>, <<"f">>, <<"R", "e", "s", "e", "r", "v", "e", "d">>,
      <<" ", "r", "e", "s", "e", "r", "v", "e", "d", " ">> }

AccessCells ==
    { NaN, <<>>, <<" ">>, <<"r">>, <<"R">>, <<"r", "w">>, <<" ", "R", "O", " ">>,
      <<"w", "1", "c">> }

Cells(samples) == {x.cell : x \in samples}

\* A well-formed row: register R at 0x10 of block A, field g on bit 0.
GoodRow ==
    [BlockName |-> <<"A">>, RegName |-> <<"R">>, RegOffset |-> <<"0", "x", "1", "0">>,
     Bit |-> <<"0">>, FieldName |-> <<"g">>, Access |-> <<"r", "w">>,
     ResetValue |-> <<"1">>, Description |-> NaN]

\* All sequences over S of length lo to hi.
SeqsOf(S, lo, hi) == UNION {[1..n -> S] : n \in lo..hi}

\* A table that lacks one required column.
TablesMissingAColumn ==
    { [columns |-> Range(required) \ {c},
       rows |-> <<[k \in Range(required) \ {c} |-> GoodRow[k]]>>] : c \in Range(required) }

\* One row with any Bit, FieldName, Access and ResetValue, then well-formed rows.
FieldRows ==
    [BlockName : {<<"A">>}, RegName : {<<"R">>}, RegOffset : {<<"0", "x", "1", "0">>},
     Bit : Cells(BitSamples), FieldName : NameCells, Access : AccessCells,
     ResetValue : Cells(ResetSamples), Description : {NaN}]

FieldTables ==
    { [columns |-> Range(required), rows |-> <<r>> \o [k \in 1..n |-> GoodRow]] :
        r \in FieldRows, n \in 0..MaxTrail }

\* Rows that differ in their grouping keys only: register R at 0x10 or
\* register S with a blank offset in any block, and register R of block A at
\* each sample offset.
GroupRows ==
    { [GoodRow EXCEPT !.BlockName = b, !.RegName = g[1], !.RegOffset = g[2]] :
        b \in {NaN, <<>>, <<"A">>, <<"B">>},
        g \in {<<<<"R">>, <<"0", "x", "1", "0">>>>, <<<<"S">>, NaN>>} }
    \cup
    { [GoodRow EXCEPT !.RegOffset = o] : o \in Cells(OffsetSamples) }

GroupTables ==
    { [columns |-> Range(required), rows |-> rs] : rs \in SeqsOf(GroupRows, 0, MaxRows) }

\* Rows of sparsely filled sheets, without and with the Hierarchy column.
BlankRow == [k \in Range(required) |-> NaN]

FillRows ==
    { [r EXCEPT !.BlockName = b, !.RegName = n, !.RegOffset = o] :
        r \in {GoodRow}, b \in {NaN, <<"A">>, <<"B">>}, n \in {NaN, <<"R">>},
        o \in {NaN, <<"0", "x", "1", "0">>} }

HierarchyRows ==
    { [k \in Range(required) \cup {"Hierarchy"} |->
          IF k = "Hierarchy" THEN h ELSE IF k = "BlockName" THEN b ELSE r[k]] :
        r \in {GoodRow, BlankRow}, b \in {NaN, <<"A">>}, h \in {NaN, <<"u">>, <<"v">>} }

FillTables ==
    { [columns |-> Range(required), rows |-> rs] : rs \in SeqsOf(FillRows, 1, MaxFillRows) }
    \cup
    { [columns |-> Range(required) \cup {"Hierarchy"}, rows |-> rs] :
        rs \in SeqsOf(HierarchyRows, 1, MaxFillRows) }

(* ------------------------------------------------------------------------ *)
(* The program: main runs load_excel, generate_ralf and write_text           *)
(* ------------------------------------------------------------------------ *)

VARIABLES
    pc,         \* the call main makes next, "done", or "aborted" by an exception
    excel,      \* the table pd.read_excel returns: its columns and its rows
    df,         \* the DataFrame load_excel returned
    lines,      \* the list lines of generate_ralf when it returned
    ralf_text,  \* the text generate_ralf returned
    out,        \* the output file: whether it was written, and its text
    err         \* the exception that ended the run, "none" when there is none

vars == <<pc, excel, df, lines, ralf_text, out, err>>

NoFrame == [columns |-> {}, rows |-> <<>>]

InitWith(tables) ==
    /\ pc = "load_excel"
    /\ excel \in tables
    /\ df = NoFrame
    /\ lines = <<>>
    /\ ralf_text = <<>>
    /\ out = [written |-> FALSE, text |-> <<>>]
    /\ err = "none"

Init == InitWith(FieldTables \cup GroupTables \cup FillTables \cup TablesMissingAColumn)

\* load_excel: the schema check, then the forward fill.
LoadExcel ==
    /\ pc = "load_excel"
    /\ IF missing(excel.columns) # {}
       THEN /\ pc' = "aborted"
            /\ err' = "SchemaError"
            /\ df' = df
       ELSE /\ pc' = "generate_ralf"
            /\ err' = err
            /\ df' = load_excel(excel)
    /\ UNCHANGED <<excel, lines, ralf_text, out>>

\* generate_ralf: returns the joined lines, or is left by a ValueError.
GenerateRalf ==
    /\ pc = "generate_ralf"
    /\ \E g \in {generate_ralf(df)} :
          IF g.raised
          THEN /\ pc' = "aborted"
               /\ err' = "ValueError"
               /\ UNCHANGED <<lines, ralf_text>>
          ELSE /\ pc' = "write_text"
               /\ err' = err
               /\ lines' = g.lines
               /\ ralf_text' = Join([k \in 1..Len(g.lines) |-> g.lines[k].text])
    /\ UNCHANGED <<excel, df, out>>

\* Path(args.out).write_text(ralf_text)
WriteText ==
    /\ pc = "write_text"
    /\ out' = [written |-> TRUE, text |-> ralf_text]
    /\ pc' = "done"
    /\ UNCHANGED <<excel, df, lines, ralf_text, err>>

Next == LoadExcel \/ GenerateRalf \/ WriteText

Spec == Init /\ [][Next]_vars

\* The same program on one family of tables each.
SpecField == InitWith(FieldTables \cup TablesMissingAColumn) /\ [][Next]_vars
SpecGroup == InitWith(GroupTables \cup TablesMissingAColumn) /\ [][Next]_vars
SpecFill == InitWith(FillTables \cup TablesMissingAColumn) /\ [][Next]_vars

(* ------------------------------------------------------------------------ *)
(* Vocabulary of the properties                                             *)
(* ------------------------------------------------------------------------ *)

\* load_excel returned a DataFrame.
Loaded == pc \in {"generate_ralf", "write_text", "done"} \/ err = "ValueError"

\* generate_ralf returned its text.
Returned == pc \in {"write_text", "done"}

RowNumbers == 1..Len(df.rows)

\* The texts of the lines appended while row r was iterated, in order.
TextsOfRow(r) ==
    LET mine == SelectSeq(lines, LAMBDA l : l.row = r)
    IN [k \in 1..Len(mine) |-> mine[k].text]

StartsWith(text, chunk) == text # <<>> /\ text[1] = chunk

IsFieldHeader(text) == StartsWith(text, "        field ")
IsResetDecl(text) == StartsWith(text, "           reset ")
IsBlockHeader(text) == StartsWith(text, "block ")
IsRegisterHeader(text) == StartsWith(text, "    register ")

\* How many field headers row r put into the output.
FieldCount(r) == Len(SelectSeq(TextsOfRow(r), IsFieldHeader))

\* The decoded range and reset value of a sample cell, as Python gives them.
BitOf(cell) == CHOOSE x \in BitSamples : x.cell = cell
ResetValueOf(cell) == CHOOSE x \in ResetSamples : x.cell = cell
OffsetOf(cell) ==
    IF cell \in Cells(OffsetSamples) THEN CHOOSE x \in OffsetSamples : x.cell = cell
    ELSE [cell |-> cell, ok |-> FALSE, v |-> 0]
WidthOf(cell) == BitOf(cell).hi - BitOf(cell).lo + 1

\* The field skip rule as the specification words it.
NameBlank(row) == Strip(sanitize(row["FieldName"])) = <<>>
NameReserved(row) ==
    Lower(Strip(sanitize(row["FieldName"]))) = <<"r", "e", "s", "e", "r", "v", "e", "d">>
SkipRule(row) == NameBlank(row) \/ NameReserved(row) \/ ~BitOf(row["Bit"]).ok

\* The header of the block that line k lies in.
BlockHeaderOf(k) ==
    lines[CHOOSE j \in 1..k :
            /\ IsBlockHeader(lines[j].text)
            /\ \A i \in (j + 1)..k : ~IsBlockHeader(lines[i].text)].text

(* ------------------------------------------------------------------------ *)
(* C1: forward fill                                                         *)
(* ------------------------------------------------------------------------ *)

\* The value of the nearest row j <= i whose cell in column c is not absent,
\* absent when there is none.
NearestAbove(rows, i, c) ==
    IF \E j \in 1..i : ~IsNa(rows[j][c])
    THEN rows[CHOOSE j \in 1..i :
                /\ ~IsNa(rows[j][c])
                /\ \A m \in (j + 1)..i : IsNa(rows[m][c])][c]
    ELSE NaN

\* C1: load_excel keeps the number and order of the rows; in each of the
\* columns BlockName, RegName, RegOffset and Hierarchy that is present, row i
\* holds the value of the nearest row j <= i that is not absent in that
\* column, and stays absent when there is none; every other column is the
\* input's, row by row.
C1_ForwardFill ==
    Loaded =>
        /\ df.columns = excel.columns
        /\ Len(df.rows) = Len(excel.rows)
        /\ \A i \in 1..Len(excel.rows) : \A c \in excel.columns :
              df.rows[i][c] = IF c \in FillColumns
                              THEN NearestAbove(excel.rows, i, c)
                              ELSE excel.rows[i][c]

\* A sheet with the Hierarchy column where one fill column keeps a leading
\* absent cell, another is filled from the row just above and not from the
\* first row, and an absent cell of a column outside the fill set is kept.
C1_Witness ==
    /\ Loaded
    /\ "Hierarchy" \in df.columns
    /\ Len(df.rows) >= 3
    /\ IsNa(excel.rows[1]["BlockName"]) /\ IsNa(df.rows[1]["BlockName"])
    /\ ~IsNa(excel.rows[1]["Hierarchy"]) /\ ~IsNa(excel.rows[2]["Hierarchy"])
    /\ excel.rows[1]["Hierarchy"] # excel.rows[2]["Hierarchy"]
    /\ IsNa(excel.rows[3]["Hierarchy"])
    /\ df.rows[3]["Hierarchy"] = excel.rows[2]["Hierarchy"]
    /\ IsNa(excel.rows[3]["FieldName"]) /\ IsNa(df.rows[3]["FieldName"])

(* ------------------------------------------------------------------------ *)
(* C2: the field skip rule                                                  *)
(* ------------------------------------------------------------------------ *)

\* C2: a row whose FieldName is empty after trimming, or is "reserved" in
\* any letter case, or whose Bit is absent, empty or not a range, emits no
\* line at all, and no error leaves generate_ralf because of it.
C2_FieldSkipRule ==
    /\ (\A r \in RowNumbers : SkipRule(df.rows[r])) => err # "ValueError"
    /\ Returned => \A r \in RowNumbers : SkipRule(df.rows[r]) => TextsOfRow(r) = <<>>

(* ------------------------------------------------------------------------ *)
(* C3: the default block name                                               *)
(* ------------------------------------------------------------------------ *)

\* C3: a row whose BlockName is empty or absent after the fill, and that
\* names a register and a field, has its field inside a block whose header
\* is "block TOP {".
C3_DefaultBlockName ==
    Returned =>
        \A r \in RowNumbers :
            (/\ sanitize(df.rows[r]["BlockName"]) = <<>>
             /\ ~IsNa(df.rows[r]["RegName"]) /\ ~IsNa(df.rows[r]["RegOffset"])
             /\ ~SkipRule(df.rows[r]))
            => \E k \in 1..Len(lines) :
                  /\ lines[k].row = r
                  /\ IsFieldHeader(lines[k].text)
                  /\ BlockHeaderOf(k) = <<"block ", "T", "O", "P", " {">>

(* ------------------------------------------------------------------------ *)
(* C4: access normalization                                                 *)
(* ------------------------------------------------------------------------ *)

\* The access token the specification gives a cell.
AccessToken(cell) ==
    LET t == Lower(Strip(sanitize(cell)))
    IN IF t = <<>> THEN <<"r", "w">> ELSE IF t = <<"r">> THEN <<"r", "o">> ELSE t

\* C4: every row that emits a field declares the access "rw" when its Access
\* cell is empty, blank or absent, "ro" when it is "r" after trimming and
\* lowercasing, and the trimmed lowercased cell otherwise.
C4_AccessNormalization ==
    Returned =>
        \A r \in RowNumbers :
            TextsOfRow(r) # <<>> =>
                TextsOfRow(r)[3] =
                    <<"           access ">> \o AccessToken(df.rows[r]["Access"]) \o <<";">>

(* ------------------------------------------------------------------------ *)
(* C5: a range whose width is not positive                                  *)
(* ------------------------------------------------------------------------ *)

\* The row is in a group and passes the skip rule, so its field is due.
FieldDue(r) ==
    /\ ~IsNa(df.rows[r]["BlockName"])
    /\ ~IsNa(df.rows[r]["RegName"]) /\ ~IsNa(df.rows[r]["RegOffset"])
    /\ ~SkipRule(df.rows[r])

\* C5: when a row's field is due, its width high - low + 1 is <= 0 and its
\* ResetValue is an integer, generate_ralf attempts no negative shift (no
\* ValueError) and the row emits its header, bits, access and closing line
\* with no reset declaration.
C5_NonPositiveWidthGuard ==
    \A r \in RowNumbers :
        (/\ Loaded
         /\ pc # "generate_ralf"
         /\ FieldDue(r)
         /\ WidthOf(df.rows[r]["Bit"]) <= 0
         /\ ResetValueOf(df.rows[r]["ResetValue"]).ok)
        => /\ err # "ValueError"
           /\ Len(TextsOfRow(r)) = 4
           /\ IsFieldHeader(TextsOfRow(r)[1])
           /\ \A k \in 1..4 : ~IsResetDecl(TextsOfRow(r)[k])

(* ------------------------------------------------------------------------ *)
(* C6: graceful degradation                                                 *)
(* ------------------------------------------------------------------------ *)

\* C6: generate_ralf is never left by an error; the only error of the run is
\* the missing-column error, and it comes before any row is processed and
\* before any output exists.
C6_GracefulDegradation ==
    /\ err \in {"none", "SchemaError"}
    /\ err = "SchemaError" =>
          /\ missing(excel.columns) # {}
          /\ df = NoFrame /\ lines = <<>> /\ ~out.written
    /\ missing(excel.columns) = {} => pc # "aborted"

(* ------------------------------------------------------------------------ *)
(* C7: reset masking                                                        *)
(* ------------------------------------------------------------------------ *)

\* The reset declarations among the lines of row r.
ResetDeclsOf(r) == SelectSeq(TextsOfRow(r), IsResetDecl)

\* C7: a row that emits a field of width W >= 1 carries exactly one
\* declaration reset W'hH with H the upper-case hexadecimal of v mod 2^W when
\* its ResetValue is the integer v, negative v included, and no reset
\* declaration when its ResetValue is empty, blank, absent or no integer; no
\* error is raised, whatever the ResetValue cells, while every range that
\* decodes has a positive width.
C7_ResetMasking ==
    /\ (Loaded /\ \A r \in RowNumbers :
                     BitOf(df.rows[r]["Bit"]).ok => WidthOf(df.rows[r]["Bit"]) >= 1)
          => err = "none"
    /\ Returned =>
          \A r \in RowNumbers :
              (TextsOfRow(r) # <<>> /\ WidthOf(df.rows[r]["Bit"]) >= 1) =>
                  LET W == WidthOf(df.rows[r]["Bit"])
                      rv == ResetValueOf(df.rows[r]["ResetValue"])
                  IN IF rv.ok
                     THEN ResetDeclsOf(r) =
                            << <<"           reset ">> \o FormatDec(W) \o <<"'h">>
                                 \o FormatHex(rv.v % (2 ^ W)) \o <<";">> >>
                     ELSE ResetDeclsOf(r) = <<>>

\* The text was returned and holds the field of a row with Bit 11:8 and
\* ResetValue 0x1F, reset 4'hF, or of a row with Bit 7:0 and ResetValue -1,
\* reset 8'hFF.
C7_Witness ==
    /\ Returned
    /\ \E r \in RowNumbers :
          \/ /\ df.rows[r]["Bit"] = <<"1", "1", ":", "8">>
             /\ df.rows[r]["ResetValue"] = <<"0", "x", "1", "F">>
             /\ ResetDeclsOf(r) = << <<"           reset ", "4", "'h", "F", ";">> >>
          \/ /\ df.rows[r]["Bit"] = <<"7", ":", "0">>
             /\ df.rows[r]["ResetValue"] = <<" ", "-", "1">>
             /\ ResetDeclsOf(r) = << <<"           reset ", "8", "'h", "F", "F", ";">> >>

(* ------------------------------------------------------------------------ *)
(* C8: grouping conserves and orders the rows                               *)
(* ------------------------------------------------------------------------ *)

\* The name a row's block is to carry.
BlockLabel(row) ==
    IF sanitize(row["BlockName"]) = <<>> THEN <<"T", "O", "P">> ELSE row["BlockName"]

\* C8: every row the skip rule does not skip emits exactly one field, inside
\* the block named by its BlockName, and between two register headers the
\* fields stand in the order of their rows.
C8_GroupingConservesRows ==
    Returned =>
        /\ \A r \in RowNumbers : ~SkipRule(df.rows[r]) => FieldCount(r) = 1
        /\ \A k \in 1..Len(lines) :
              IsFieldHeader(lines[k].text) =>
                  BlockHeaderOf(k) =
                      <<"block ">> \o BlockLabel(df.rows[lines[k].row]) \o <<" {">>
        /\ \A k1, k2 \in 1..Len(lines) :
              (/\ k1 < k2
               /\ IsFieldHeader(lines[k1].text) /\ IsFieldHeader(lines[k2].text)
               /\ \A k \in k1..k2 : ~IsRegisterHeader(lines[k].text))
              => lines[k1].row < lines[k2].row

(* ------------------------------------------------------------------------ *)
(* C9: the offset of a register header                                      *)
(* ------------------------------------------------------------------------ *)

\* The characters between "@'h" and " {" of a register header.
HexPart(text) ==
    LET at == CHOOSE k \in 1..Len(text) : text[k] = " @'h"
    IN SubSeq(text, at + 1, Len(text) - 1)

\* C9: the offset of every register header is written with hexadecimal
\* digits only, with no sign; and every row that names a block and a register
\* has the header "register <RegName> @'h<HEX> {" in the output, <HEX> being
\* its RegOffset as an integer, or 0 when the RegOffset is malformed, empty
\* or absent.
C9_RegisterOffset ==
    Returned =>
        /\ \A k \in 1..Len(lines) :
              IsRegisterHeader(lines[k].text) =>
                  \A j \in 1..Len(HexPart(lines[k].text)) :
                      HexPart(lines[k].text)[j] \in Range(HexDigits)
        /\ \A r \in RowNumbers :
              (/\ ~IsNa(df.rows[r]["BlockName"]) /\ ~IsNa(df.rows[r]["RegName"])
               /\ OffsetOf(df.rows[r]["RegOffset"]).v >= 0)
              => \E k \in 1..Len(lines) :
                    lines[k].text =
                        <<"    register ">> \o df.rows[r]["RegName"] \o <<" @'h">>
                        \o NatDigits(OffsetOf(df.rows[r]["RegOffset"]).v, 16) \o <<" {">>

(* ------------------------------------------------------------------------ *)
(* C10: blank lines                                                         *)
(* ------------------------------------------------------------------------ *)

IsBlank(text) == text = <<>>
IsBlockClose(text) == text = <<"}">>
IsRegisterClose(text) == text = <<"    }">>

\* C10: when at least one block is emitted, the first line is a block
\* header and the last the closing line of a block; the closing line of a
\* block that is not the last line is followed by exactly one blank line and
\* then a block header; a block header that is not the first line follows a
\* blank line; and the closing line of a register is followed by exactly one
\* blank line.
C10_BlankLines ==
    (Returned /\ lines # <<>>) =>
        LET n == Len(lines)
            T(k) == lines[k].text
        IN /\ IsBlockHeader(T(1))
           /\ IsBlockClose(T(n))
           /\ \A k \in 1..n :
                 /\ (IsBlockClose(T(k)) /\ k < n) =>
                        k + 2 <= n /\ IsBlank(T(k + 1)) /\ IsBlockHeader(T(k + 2))
                 /\ (IsBlockHeader(T(k)) /\ k > 1) =>
                        k > 2 /\ IsBlank(T(k - 1)) /\ IsBlockClose(T(k - 2))
                 /\ IsRegisterClose(T(k)) =>
                        k + 2 <= n /\ IsBlank(T(k + 1)) /\ ~IsBlank(T(k + 2))

\* The text was returned with two blocks, the first of them with two
\* registers.
C10_Witness ==
    /\ Returned
    /\ Len(SelectSeq(lines, LAMBDA l : IsBlockHeader(l.text))) >= 2
    /\ \E k1, k2 \in 1..Len(lines) :
          /\ k1 < k2
          /\ IsRegisterClose(lines[k1].text) /\ IsRegisterClose(lines[k2].text)
          /\ \A k \in k1..k2 : ~IsBlockHeader(lines[k].text)
          /\ \E k3 \in (k2 + 1)..Len(lines) : IsBlockHeader(lines[k3].text)

====
